---- MODULE Spec2Model ----
(***************************************************************************)
(* pyControl4 websocket client (src/pyControl4/websocket.py): the callback *)
(* registry of C4Websocket, the dispatch of one inbound frame through      *)
(* _C4DirectorNamespace.trigger_event, C4Websocket._callback and           *)
(* C4Websocket._process_message, and the subscription handshake of         *)
(* _C4DirectorNamespace.on_clientId.                                       *)
(*                                                                         *)
(* The program runs on one asyncio loop: a step of the model is the code   *)
(* that runs between two awaits that can suspend.  A device callback is    *)
(* awaited, so it is two steps (it starts, it ends); the handshake GET is   *)
(* awaited, so the handshake is two steps (the GET is issued, it returns). *)
(* Registry calls and transport events may happen between any two steps.   *)
(***************************************************************************)
EXTENDS Integers, Sequences, FiniteSets, TLC

\* ------------------------------------------------------------------ bounds
\* Longest batch (list payload) of one frame.
MaxBatch == 2
\* Client-id announcements, and "connect" events, one namespace handles.
MaxAnnounce == 2
\* sio_disconnect calls between two sio_connect calls.
MaxDisconnect == 2
\* sio_connect calls followed await by await, each by its own caller.
MaxCalls == 3
\* Objects in the Director's answer to a read of a variable.
MaxItems == 2

\* ------------------------------------------------------------- value sets
\* Control4 item ids (positive integers) and the callables registered for them.
ItemIds == {1, 2}
Callbacks == {"a", "b"}
\* Three callables, for the registry on its own (order among the remaining ones).
CallbacksWide == {"a", "b", "c"}
\* Python's None as a device id, as a callback argument, as a subscription id.
NoDevice == 0
NoCallback == "None"
NoSub == "None"
\* Subscription ids the Director may hand out (also the channel names of frames).
SubIds == {"s1", "s2"}
\* Strings the namespace emits.
PROBE_MESSAGE == "2probe"
STATUS_ACK_MESSAGE == "2"

\* One JSON value of a frame.  kind "dict" is an object, with its "iddevice" value
\* (NoDevice: the key is absent) and whether it has a "status" key; "scalar" is
\* null or a number; "str" is the string "status"; "text" is any string that
\* does not contain "status".
Dict(d, st) == [kind |-> "dict", iddevice |-> d, status |-> st]
NonObject(k) == [kind |-> k, iddevice |-> NoDevice, status |-> FALSE]
Records ==
    {Dict(d, st) : d \in ItemIds \cup {NoDevice}, st \in BOOLEAN}
      \cup {NonObject(k) : k \in {"scalar", "str", "text"}}
\* The elements of a JSON list: of an element the code reads only whether it is the
\* string "status", whether it is a dict, and its "iddevice"; one dict with a
\* "status" key and one value that is no dict stand for the others.
BatchRecords ==
    {Dict(d, FALSE) : d \in ItemIds \cup {NoDevice}}
      \cup {Dict(1, TRUE), NonObject("scalar"), NonObject("str")}
\* args[0] of a frame: one JSON value (list = FALSE, body = <<m>>) or a JSON list.
Single(m) == [list |-> FALSE, body |-> <<m>>]
Batch(ms) == [list |-> TRUE, body |-> ms]
Payloads ==
    {Single(m) : m \in Records}
      \cup {Batch(ms) : ms \in UNION {[1..n -> BatchRecords] : n \in 0..MaxBatch}}

VARIABLES
    item_callbacks,   \* C4Websocket._item_callbacks: dict item id -> list of callbacks
    before,           \* history: per item id, the pairs <<x, y>> of registered callbacks
                      \* with x's registration in effect before y's
    sio,              \* C4Websocket._sio: "None" or "client"
    connected,        \* _C4DirectorNamespace.connected
    subscription_id,  \* _C4DirectorNamespace.subscription_id
    inflight,         \* handshake GETs issued by on_clientId and not yet returned
    trace,            \* what the namespace emitted / requested / received, in order
    task,             \* the trigger_event call handling the current frame
    op,               \* history: the last registry call and the registry it found
                      \* (recorded by SpecRegistry and SpecAdd)
    life,             \* the client behind _sio, the calls of sio_connect and
                      \* sio_disconnect, and the hooks fired
    pure              \* a call of a function without state: its name, its
                      \* argument and its outcome (followed by SpecPure only)

vars == <<item_callbacks, before, sio, connected, subscription_id, inflight, trace,
          task, op, life, pure>>

\* ------------------------------------------------------------ the registry
\* `callback in list` / `callback not in list`
InList(list, cb) == \E i \in 1..Len(list) : list[i] = cb

\* list.remove that takes the last element: a pop() in place of remove(callback).
ListRemoveLast(list, cb) == SubSeq(list, 1, Len(list) - 1)

\* list.remove(cb): the list without the first occurrence of cb
ListRemove(list, cb) ==
    LET i == CHOOSE j \in 1..Len(list) :
                 list[j] = cb /\ \A h \in 1..(j - 1) : list[h] # cb
    IN  [h \in 1..(Len(list) - 1) |-> IF h < i THEN list[h] ELSE list[h + 1]]

\* del dict[d]
DictDel(reg, d) == [x \in (DOMAIN reg) \ {d} |-> reg[x]]
\* dict[d] = list
DictSet(reg, d, list) == [x \in (DOMAIN reg) \cup {d} |-> IF x = d THEN list ELSE reg[x]]
\* dict.get(d, [])
DictGet(reg, d) == IF d \in DOMAIN reg THEN reg[d] ELSE <<>>

\* add_item_callback without the test for duplicates.
AddItemCallbackDup(reg, item_id, callback) ==
    LET reg1 == IF item_id \notin DOMAIN reg THEN DictSet(reg, item_id, <<>>) ELSE reg
    IN  DictSet(reg1, item_id, Append(reg1[item_id], callback))

\* add_item_callback that puts the callback first: insert(0, callback).
AddItemCallbackFront(reg, item_id, callback) ==
    LET reg1 == IF item_id \notin DOMAIN reg THEN DictSet(reg, item_id, <<>>) ELSE reg
    IN  IF ~InList(reg1[item_id], callback)
        THEN DictSet(reg1, item_id, <<callback>> \o reg1[item_id])
        ELSE reg1

\* The registry after add_item_callback(item_id, callback).
AddItemCallback(reg, item_id, callback) ==
    LET reg1 == IF item_id \notin DOMAIN reg THEN DictSet(reg, item_id, <<>>) ELSE reg
    IN  IF ~InList(reg1[item_id], callback)
        THEN DictSet(reg1, item_id, Append(reg1[item_id], callback))
        ELSE reg1

\* remove_item_callback that leaves the emptied list in the dict.
RemoveItemCallbackNoPrune(reg, item_id, callback) ==
    IF item_id \notin DOMAIN reg THEN reg
    ELSE IF callback = NoCallback THEN DictDel(reg, item_id)
    ELSE IF InList(reg[item_id], callback)
         THEN DictSet(reg, item_id, ListRemove(reg[item_id], callback))
         ELSE reg

\* The registry after remove_item_callback(item_id, callback); callback = NoCallback
\* is the call with the argument omitted (or None).
RemoveItemCallback(reg, item_id, callback) ==
    IF item_id \notin DOMAIN reg THEN reg
    ELSE IF callback = NoCallback THEN DictDel(reg, item_id)
    ELSE IF InList(reg[item_id], callback)
         THEN LET rest == ListRemove(reg[item_id], callback)
              IN  IF rest = <<>> THEN DictDel(reg, item_id)
                  ELSE DictSet(reg, item_id, rest)
         ELSE reg   \* list.remove raised ValueError, which is passed over

\* History of registrations, kept beside the dict: the callbacks registered for d
\* are the ones in a pair of before[d] or alone in it as <<x, x>>.
BeforeAdd(bf, d, cb) ==
    IF <<cb, cb>> \in bf[d] THEN bf
    ELSE [bf EXCEPT ![d] = @ \cup {<<x[1], cb>> : x \in {y \in @ : y[1] = y[2]}}
                             \cup {<<cb, cb>>}]
BeforeRemove(bf, d, cb) ==
    IF cb = NoCallback THEN [bf EXCEPT ![d] = {}]
    ELSE [bf EXCEPT ![d] = {x \in @ : x[1] # cb /\ x[2] # cb}]

\* The registry calls leave `op` to the specification that takes them.
NoOp == [name |-> "none", d |-> NoDevice, cb |-> NoCallback, pre |-> <<>>]
Recorded(name, d, cb) == op' = [name |-> name, d |-> d, cb |-> cb, pre |-> item_callbacks]

add_item_callback(item_id, callback) ==
    /\ item_callbacks' = AddItemCallback(item_callbacks, item_id, callback)
    /\ before' = BeforeAdd(before, item_id, callback)
    /\ UNCHANGED <<sio, connected, subscription_id, inflight, trace, task, life>>
    /\ UNCHANGED pure

remove_item_callback(item_id, callback) ==
    /\ item_callbacks' = RemoveItemCallback(item_callbacks, item_id, callback)
    /\ before' = BeforeRemove(before, item_id, callback)
    /\ UNCHANGED <<sio, connected, subscription_id, inflight, trace, task, life>>
    /\ UNCHANGED pure

\* ------------------------------------------------- dispatch of one frame
\* `"status" in msg` raises TypeError (the value is not iterable): a payload that
\* is null or a number.
StatusInRaises(payload) == ~payload.list /\ payload.body[1].kind = "scalar"

\* The value of `"status" in msg`: a key of a dict, an element of a list, a
\* substring of a string.
StatusIn(payload) ==
    IF payload.list
    THEN \E i \in 1..Len(payload.body) : payload.body[i].kind = "str"
    ELSE LET m == payload.body[1]
         IN  \/ m.kind = "dict" /\ m.status
             \/ m.kind = "str"

\* `msg["status"]` raises TypeError: only a dict can be indexed by a string.
StatusItemRaises(payload) == payload.list \/ payload.body[1].kind # "dict"

\* trigger_event without its status branch.
RouteNoStatus(payload) ==
    IF StatusInRaises(payload) THEN "raise" ELSE "callback"

\* trigger_event's branch for a frame named by the subscription id, with the
\* same test made again by _callback:
\*   "raise"     the test or the log line of the status branch raises TypeError
\*   "ack"       the status branch: emit(_STATUS_ACK_MESSAGE)
\*   "callback"  the payload goes to _callback and on to _process_message
Route(payload) ==
    IF StatusInRaises(payload) THEN "raise"
    ELSE IF StatusIn(payload)
         THEN IF StatusItemRaises(payload) THEN "raise" ELSE "ack"
         ELSE "callback"

\* message.get("iddevice") if isinstance(message, dict) else None
DeviceId(m) == IF m.kind = "dict" THEN m.iddevice ELSE NoDevice

\* The callbacks of every item, whatever the device id of the record.
SnapshotAll(reg, device_id) ==
    DictGet(reg, 1) \o DictGet(reg, 2)

\* callbacks[:] of self._item_callbacks.get(device_id, [])
Snapshot(reg, device_id) == DictGet(reg, device_id)

IdleTask ==
    [pc |-> "idle", route |-> "none", payload |-> Batch(<<>>), idx |-> 0,
     callbacks |-> <<>>, k |-> 0, calls |-> <<>>, emitted |-> <<>>, caught |-> FALSE,
     regAt |-> {}, event |-> "none", held |-> NoSub]

\* No trigger_event call for a frame is running.
NoFrame == task.pc = "idle"

\* The task right after trigger_event took a frame named by the subscription id.
StartFrame(payload) ==
    LET r == Route(payload)
    IN  [IdleTask EXCEPT !.route = r, !.payload = payload,
                         !.pc = CASE r = "raise" -> "raised"
                                  [] r = "ack" -> "done"
                                  [] OTHER -> "next",
                         !.idx = IF r = "callback" THEN 1 ELSE 0,
                         !.emitted = IF r = "ack" THEN <<STATUS_ACK_MESSAGE>> ELSE <<>>]

\* trigger_event(event, payload) for an event that is none of "subscribe",
\* "connect", "disconnect", "clientId": a frame of a channel.
\* trigger_event that takes a frame of any channel for subscription data.
OnSubscriptionAny(event, sub) == TRUE

\* `elif event == self.subscription_id`
OnSubscription(event, sub) == event = sub

\* The task keeps the frame's event name and the subscription id held when the
\* frame came (history).
frame_event(event, payload) ==
    /\ NoFrame
    /\ sio = "client"
    /\ life.open
    /\ life.up
    /\ task' = [(IF OnSubscription(event, subscription_id)
                 THEN StartFrame(payload)
                 ELSE [IdleTask EXCEPT !.route = "ignored", !.payload = payload,
                                       !.pc = "done"])
                EXCEPT !.event = event, !.held = subscription_id]
    /\ UNCHANGED <<item_callbacks, before, sio, connected, subscription_id,
                   inflight, trace, op, life>>
    /\ UNCHANGED pure

\* The task after _process_message looked at record idx: the record is passed
\* over (no device id, or no callback for it), or its callbacks are to be called.
AfterLookup(t, reg, bf) ==
    LET m == t.payload.body[t.idx]
        device_id == DeviceId(m)
        cbs == IF device_id = NoDevice THEN <<>> ELSE Snapshot(reg, device_id)
        t1 == [t EXCEPT !.calls = <<>>,
                        !.regAt = IF m.kind = "dict" /\ m.iddevice \in ItemIds
                                  THEN bf[m.iddevice] ELSE {}]
    IN  IF cbs = <<>>
        THEN [t1 EXCEPT !.idx = @ + 1, !.callbacks = <<>>, !.k = 0]
        ELSE [t1 EXCEPT !.pc = "call", !.callbacks = cbs, !.k = 1]

\* _callback's loop reaches record idx and _process_message runs up to its first
\* await of a callback.
process_message ==
    /\ task.pc = "next"
    /\ task.idx <= Len(task.payload.body)
    /\ task' = AfterLookup(task, item_callbacks, before)
    /\ UNCHANGED <<item_callbacks, before, sio, connected, subscription_id,
                   inflight, trace, op, life>>
    /\ UNCHANGED pure

\* _callback's loop is over: trigger_event returns.
frame_done ==
    /\ task.pc = "next"
    /\ task.idx > Len(task.payload.body)
    /\ task' = [task EXCEPT !.pc = "done"]
    /\ UNCHANGED <<item_callbacks, before, sio, connected, subscription_id,
                   inflight, trace, op, life>>
    /\ UNCHANGED pure

\* trigger_event has returned ("done") or raised ("raised") into the transport,
\* and its frame is gone.
frame_return ==
    /\ task.pc \in {"done", "raised"}
    /\ task' = IdleTask
    /\ UNCHANGED <<item_callbacks, before, sio, connected, subscription_id,
                   inflight, trace, op, life>>
    /\ UNCHANGED pure

\* The arguments of `callback(device_id, message)`.
CallArgs(t) ==
    LET m == t.payload.body[t.idx]
    IN  [rec |-> t.idx, cb |-> t.callbacks[t.k], dev |-> DeviceId(m), msg |-> m,
         res |-> "running"]

\* The callback is started and not awaited: the loop goes on while it runs.
AfterBeginNoAwait(t) ==
    LET t1 == [t EXCEPT !.calls = Append(@, CallArgs(t))]
    IN  IF t.k < Len(t.callbacks)
        THEN [t1 EXCEPT !.pc = "call", !.k = @ + 1]
        ELSE [t1 EXCEPT !.pc = "next", !.idx = @ + 1]

\* `await callback(device_id, message)`: the callback starts and the loop waits
\* for it.
AfterBegin(t) == [t EXCEPT !.pc = "run", !.calls = Append(@, CallArgs(t))]

callback_begin ==
    /\ task.pc = "call"
    /\ task' = AfterBegin(task)
    /\ UNCHANGED <<item_callbacks, before, sio, connected, subscription_id,
                   inflight, trace, op, life>>
    /\ UNCHANGED pure

\* try/except around the whole loop over the callbacks: an exception ends the
\* record's dispatch.
AfterCallbackSkip(t, res) ==
    LET t1 == [t EXCEPT !.calls[Len(t.calls)].res = res,
                        !.caught = @ \/ res = "raised"]
    IN  IF t.k < Len(t.callbacks) /\ res = "ok"
        THEN [t1 EXCEPT !.pc = "call", !.k = @ + 1]
        ELSE [t1 EXCEPT !.pc = "next", !.idx = @ + 1]

\* The task after the awaited callback returned ("ok") or raised an Exception
\* ("raised"), which `except Exception` catches and logs: the loop goes on.
AfterCallback(t, res) ==
    LET t1 == [t EXCEPT !.calls[Len(t.calls)].res = res,
                        !.caught = @ \/ res = "raised"]
    IN  IF t.k < Len(t.callbacks)
        THEN [t1 EXCEPT !.pc = "call", !.k = @ + 1]
        ELSE [t1 EXCEPT !.pc = "next", !.idx = @ + 1]

\* The loop over the live list: `for callback in callbacks:` goes on in whatever
\* the registry holds for the device when a callback has returned.
LoopListLive(t, reg) == DictGet(reg, DeviceId(t.payload.body[t.idx]))

\* `for callback in callbacks[:]`: the list the loop goes over is the copy made
\* before the first callback, whatever the registry holds by now.
LoopList(t, reg) == t.callbacks

callback_end(res) ==
    /\ task.pc = "run"
    /\ task' = AfterCallback([task EXCEPT !.callbacks = LoopList(task, item_callbacks)],
                             res)
    /\ UNCHANGED <<item_callbacks, before, sio, connected, subscription_id,
                   inflight, trace, op, life>>
    /\ UNCHANGED pure

\* ------------------------------------------------- the client and its hooks
\* sio_disconnect without the isinstance test.
HasClientAlways(s) == TRUE

\* isinstance(self._sio, socketio.AsyncClient)
HasClient(s) == s = "client"

\* What `await self._sio.disconnect()` does with the value of _sio: the client's
\* own disconnect returns, and None has no such method.
ClientDisconnect(s) == IF s = "client" THEN "returned" ELSE "raised"

\* The life of a C4Websocket that has made no call yet.
\*   open            the client behind _sio is connected and was not disconnected
\*                   by sio_disconnect
\*   up              the namespace had its "connect" event and no "disconnect"
\*                   event since; the client hands events of the Director to
\*                   the namespace only then
\*   hooks           connect_callback and disconnect_callback were supplied
\*   connect_result  how the last sio_connect call ended
\*   handshake_raised  what the last failed on_clientId raised
\*   disconnect_calls, disconnect_result  the sio_disconnect calls since the last
\*                   sio_connect and how the last one ended
\*   connects, disconnects   "connect" / "disconnect" events since the last sio_connect
\*   connect_hook, disconnect_hook   calls of the two hooks since the last sio_connect
\*   at_connect      history: the registry at the last "connect" event that
\*                   was a reconnect of the transport
\*   renew           history: a "disconnect" event was handled and no client-id
\*                   announcement since
\*   session         C4Websocket.session: "None" or the "supplied" session
\*   opened, closed  the sessions on_clientId made itself, and those it closed,
\*                   since the last sio_connect
\*   supplied_closed the supplied session was closed by on_clientId
\*   clients, slot, calls    the client objects made so far, the one _sio refers
\*                   to (0 for None) and the sio_connect calls under way; these
\*                   are followed by SpecCalls only
\*   within          the sio_disconnect call made by the callback that is
\*                   running: "none", "calling" (suspended in
\*                   self._sio.disconnect()) or "returned"; followed by
\*                   SpecWithin only
Callers == 1..MaxCalls
NoCall == [pc |-> "idle", target |-> 0, own |-> 0]
NewLife(hooks) ==
    [open |-> FALSE, up |-> FALSE, hooks |-> hooks,
     connect_result |-> "none", handshake_raised |-> "none",
     disconnect_calls |-> 0, disconnect_result |-> "none",
     connects |-> 0, disconnects |-> 0, connect_hook |-> 0, disconnect_hook |-> 0,
     at_connect |-> <<>>, renew |-> FALSE,
     session |-> "None", opened |-> 0, closed |-> 0, supplied_closed |-> FALSE,
     clients |-> <<>>, slot |-> 0, calls |-> [c \in Callers |-> NoCall],
     within |-> "none"]

\* ------------------------------------------------------------ the handshake
\* sio_connect that starts over with an empty registry.
sio_connect_forgets ==
    /\ sio' = "client"
    /\ connected' = FALSE
    /\ subscription_id' = NoSub
    /\ inflight' = 0
    /\ trace' = <<>>
    /\ life' = [NewLife(life.hooks) EXCEPT !.open = TRUE, !.connect_result = "returned",
                                           !.session = life.session,
                                           !.supplied_closed = life.supplied_closed]
    /\ item_callbacks' = [d \in {} |-> <<>>]
    /\ before' = [d \in ItemIds |-> {}]
    /\ UNCHANGED <<task, op>>
    /\ UNCHANGED pure

\* sio_connect(token) run alone to its end with a server that accepts the
\* connection: the earlier client, if any, is disconnected, and a new client with
\* a new namespace object (connected False, no subscription id) takes its place;
\* the call returns when the transport is connected.  The handshakes still in
\* flight belong to the old namespace object and are left out with it.
sio_connect ==
    /\ sio' = "client"
    /\ connected' = FALSE
    /\ subscription_id' = NoSub
    /\ inflight' = 0
    /\ trace' = <<>>
    /\ life' = [NewLife(life.hooks) EXCEPT !.open = TRUE, !.connect_result = "returned",
                                           !.session = life.session,
                                           !.supplied_closed = life.supplied_closed]
    /\ UNCHANGED <<item_callbacks, before, task, op>>
    /\ UNCHANGED pure

\* sio_connect(token) with a server that cannot be reached: self._sio.connect
\* raises and the call raises with it; _sio holds the new, unconnected client.
sio_connect_refused ==
    /\ sio' = "client"
    /\ connected' = FALSE
    /\ subscription_id' = NoSub
    /\ inflight' = 0
    /\ trace' = <<>>
    /\ life' = [NewLife(life.hooks) EXCEPT !.connect_result = "raised",
                                           !.session = life.session,
                                           !.supplied_closed = life.supplied_closed]
    /\ UNCHANGED <<item_callbacks, before, task, op>>
    /\ UNCHANGED pure

\* sio_connect(token) await by await, for callers that do not wait for one
\* another.  A client object is "connecting", "live" or "closed".
\* Lines 203-212: a new client is made and put in _sio, and the call is suspended
\* in `await self._sio.connect`.
WithNewClient(lf, c) ==
    [lf EXCEPT !.clients = Append(@, "connecting"),
               !.slot = Len(lf.clients) + 1,
               !.open = FALSE,
               !.calls[c] = [pc |-> "connecting", target |-> 0,
                             own |-> Len(lf.clients) + 1]]

\* The client object k after its disconnect(): a connect still under way is
\* given up with it.
Closed(lf, k) == [lf EXCEPT !.clients[k] = "closed"]

\* Lines 201-212 up to the first await that suspends.  With a live client in
\* _sio that is `await self._sio.disconnect()`, which has to close a transport;
\* with no client, or one that is not live, sio_disconnect returns at once and
\* the call goes on to `await self._sio.connect` of the new client.
sio_connect_call(c) ==
    /\ life.calls[c].pc = "idle"
    /\ IF HasClient(sio) /\ life.clients[life.slot] = "live"
       THEN /\ life' = [life EXCEPT !.calls[c] = [pc |-> "disconnecting",
                                                  target |-> life.slot, own |-> 0]]
            /\ UNCHANGED <<sio, connected, subscription_id, inflight, trace>>
       ELSE /\ life' = WithNewClient(IF HasClient(sio) THEN Closed(life, life.slot)
                                     ELSE life, c)
            /\ sio' = "client"
            /\ connected' = FALSE
            /\ subscription_id' = NoSub
            /\ inflight' = 0
            /\ trace' = <<>>
    /\ UNCHANGED <<item_callbacks, before, task, op>>
    /\ UNCHANGED pure

\* `await self._sio.disconnect()` of a suspended sio_connect returns: the client
\* it was called on is closed and the call goes on to lines 203-212 with a new
\* client.
client_disconnected(c) ==
    /\ life.calls[c].pc = "disconnecting"
    /\ life' = WithNewClient(Closed(life, life.calls[c].target), c)
    /\ sio' = "client"
    /\ connected' = FALSE
    /\ subscription_id' = NoSub
    /\ inflight' = 0
    /\ trace' = <<>>
    /\ UNCHANGED <<item_callbacks, before, task, op>>
    /\ UNCHANGED pure

\* `await self._sio.connect(...)` of a suspended sio_connect returns, or raises
\* when the client was closed meanwhile.
client_connected(c) ==
    /\ life.calls[c].pc = "connecting"
    /\ LET own == life.calls[c].own
           ok == life.clients[own] = "connecting"
       IN  life' = [life EXCEPT !.clients[own] = IF ok THEN "live" ELSE @,
                               !.calls[c].pc = IF ok THEN "returned" ELSE "raised",
                               !.open = IF own = life.slot THEN ok ELSE @,
                               !.connect_result = IF ok THEN "returned" ELSE "raised"]
    /\ UNCHANGED <<item_callbacks, before, sio, connected, subscription_id, inflight,
                   trace, task, op>>
    /\ UNCHANGED pure

\* sio_disconnect(): the client behind _sio, if there is one, is disconnected;
\* _sio keeps the client object.  Whether the client then hands a "disconnect"
\* event to the namespace is the library's choice: on_disconnect stays enabled
\* while `up` holds.
sio_disconnect ==
    /\ life.disconnect_calls < MaxDisconnect
    /\ IF HasClient(sio)
       THEN life' = [life EXCEPT !.open = FALSE,
                                 !.disconnect_calls = @ + 1,
                                 !.disconnect_result = ClientDisconnect(sio)]
       ELSE life' = [life EXCEPT !.disconnect_calls = @ + 1,
                                 !.disconnect_result = "returned"]
    /\ UNCHANGED <<item_callbacks, before, sio, connected, subscription_id, inflight,
                   trace, task, op>>
    /\ UNCHANGED pure

\* A running callback calls sio_disconnect(): the call runs up to its await of
\* self._sio.disconnect(), and the callback is suspended in it.
callback_sio_disconnect ==
    /\ task.pc = "run"
    /\ life.within = "none"
    /\ HasClient(sio)
    /\ life.open
    /\ life' = [life EXCEPT !.within = "calling", !.disconnect_calls = @ + 1]
    /\ UNCHANGED <<item_callbacks, before, sio, connected, subscription_id, inflight,
                   trace, task, op>>
    /\ UNCHANGED pure

\* A client whose disconnect() waits for the handling of the frame in hand to
\* finish before it returns.
ClientDisconnectReturnsAfterFrame(t) == t.pc \in {"idle", "done", "raised"}

\* Whether self._sio.disconnect() can return while the frame in hand is still
\* handled: the client closes the transport without waiting for the task that
\* runs the handler, and sio_disconnect takes no lock of its own.
ClientDisconnectReturns(t) == TRUE

\* self._sio.disconnect() returns into the sio_disconnect call of the callback,
\* and sio_disconnect returns into the callback.
within_disconnected ==
    /\ life.within = "calling"
    /\ ClientDisconnectReturns(task)
    /\ life' = [life EXCEPT !.within = "returned", !.open = FALSE,
                            !.disconnect_result = ClientDisconnect(sio)]
    /\ UNCHANGED <<item_callbacks, before, sio, connected, subscription_id, inflight,
                   trace, task, op>>
    /\ UNCHANGED pure

\* The callback that is running returns or raises; it cannot while it is
\* suspended in sio_disconnect.
within_callback_end(res) ==
    /\ life.within # "calling"
    /\ callback_end(res)

\* on_connect that does not call the hook.
ConnectHookNone(hooks) == 0

\* The calls of connect_callback made by one on_connect.
ConnectHook(hooks) == IF hooks THEN 1 ELSE 0

\* trigger_event("connect") -> on_connect
on_connect ==
    /\ sio = "client"
    /\ life.open
    /\ ~life.up
    /\ life.connects < MaxAnnounce
    /\ life' = [life EXCEPT !.up = TRUE, !.connects = @ + 1,
                            !.connect_hook = @ + ConnectHook(life.hooks),
                            !.at_connect = IF life.connects > 0 THEN item_callbacks
                                           ELSE @]
    /\ UNCHANGED <<item_callbacks, before, sio, connected, subscription_id, inflight,
                   trace, task, op>>
    /\ UNCHANGED pure

\* Always-true guard: on_clientId that fetches a subscription id at every
\* announcement.
NeedsSubscriptionAlways == TRUE

\* `self.session or aiohttp.ClientSession(...)`: the sessions on_clientId makes.
OwnSessions(session) == IF session = "None" THEN 1 ELSE 0

\* on_clientId that closes whatever session it used.
CloseSessionAny(session) ==
    [own |-> IF session = "None" THEN 1 ELSE 0, supplied |-> session # "None"]

\* The `finally` of on_clientId: the session is closed when self.session is None.
CloseSession(session) ==
    [own |-> IF session = "None" THEN 1 ELSE 0, supplied |-> FALSE]

\* The life after the `finally` of on_clientId.
Finally(lf) ==
    [lf EXCEPT !.closed = @ + CloseSession(lf.session).own,
               !.supplied_closed = @ \/ CloseSession(lf.session).supplied]

\* `not self.connected and not self.subscription_id`
NeedsSubscription == ~connected /\ subscription_id \in {NoSub, ""}

Announced == Cardinality({i \in 1..Len(trace) : trace[i] = <<"emit", PROBE_MESSAGE>>})

\* on_clientId up to its await of the GET: the probe is emitted, and the GET is
\* issued unless the namespace is connected or holds a subscription id.
on_clientId ==
    /\ sio = "client"
    /\ life.open
    /\ life.up
    /\ Announced < MaxAnnounce
    /\ IF NeedsSubscription
       THEN /\ trace' = trace \o << <<"emit", PROBE_MESSAGE>>, <<"get", "request">> >>
            /\ inflight' = inflight + 1
       ELSE /\ trace' = Append(trace, <<"emit", PROBE_MESSAGE>>)
            /\ UNCHANGED inflight
    /\ life' = [life EXCEPT !.renew = FALSE,
                            !.opened = @ + (IF NeedsSubscription
                                            THEN OwnSessions(life.session) ELSE 0)]
    /\ UNCHANGED <<item_callbacks, before, sio, connected, subscription_id, task, op>>
    /\ UNCHANGED pure

\* startSubscription emitted before the id is stored: it carries the old value.
SubscribedEmitFirst(s) ==
    [connected |-> TRUE, subscription_id |-> s,
     emitted |-> <<"startSubscription", subscription_id>>]

\* The namespace fields and what is emitted once the GET returned a body with
\* "subscriptionId": subscription_id.
Subscribed(s) ==
    LET conn == TRUE
        sub == s
    IN  [connected |-> conn, subscription_id |-> sub,
         emitted |-> <<"startSubscription", sub>>]

\* The GET of a handshake returns a response that carries a subscription id.
get_returns_id(s) ==
    /\ inflight > 0
    /\ inflight' = inflight - 1
    /\ connected' = Subscribed(s).connected
    /\ subscription_id' = Subscribed(s).subscription_id
    /\ trace' = trace \o << <<"get", s>>, Subscribed(s).emitted >>
    /\ life' = Finally(life)
    /\ UNCHANGED <<item_callbacks, before, sio, task, op>>
    /\ UNCHANGED pure

\* The ways the GET of a handshake fails, and what on_clientId raises for each:
\* an error response (check_response_for_error raises), a body without
\* "subscriptionId", the 10 s timeout, a network error.
Failures == {"error response", "no subscriptionId", "timeout", "network error"}
Raised(failure) ==
    CASE failure = "error response" -> "C4Exception"
      [] failure = "no subscriptionId" -> "ValueError"
      [] failure = "timeout" -> "TimeoutError"
      [] failure = "network error" -> "ClientError"

\* on_clientId that takes the missing id for a subscription id.
FailedStoresNone(failure, conn, sub) ==
    IF failure = "no subscriptionId"
    THEN [connected |-> TRUE, subscription_id |-> NoSub,
          emitted |-> << <<"startSubscription", NoSub>> >>, raised |-> "none"]
    ELSE [connected |-> conn, subscription_id |-> sub,
          emitted |-> <<>>, raised |-> Raised(failure)]

\* The namespace fields and the end of on_clientId when the GET fails: the
\* handler raises before it assigns or emits anything.
Failed(failure, conn, sub) ==
    [connected |-> conn, subscription_id |-> sub,
     emitted |-> <<>>, raised |-> Raised(failure)]

get_fails(failure) ==
    /\ inflight > 0
    /\ inflight' = inflight - 1
    /\ connected' = Failed(failure, connected, subscription_id).connected
    /\ subscription_id' = Failed(failure, connected, subscription_id).subscription_id
    /\ trace' = trace \o Failed(failure, connected, subscription_id).emitted
    /\ life' = [Finally(life) EXCEPT !.handshake_raised =
                                Failed(failure, connected, subscription_id).raised]
    /\ UNCHANGED <<item_callbacks, before, sio, task, op>>
    /\ UNCHANGED pure

\* The calls of disconnect_callback made by one on_disconnect.
DisconnectHook(hooks) == IF hooks THEN 1 ELSE 0

\* on_disconnect that clears the flag and keeps the subscription id.
DisconnectedKeepsId(conn, sub) == [connected |-> FALSE, subscription_id |-> sub]

\* The namespace fields after on_disconnect: both are cleared, with no await
\* between the two assignments.
Disconnected(conn, sub) == [connected |-> FALSE, subscription_id |-> NoSub]

\* trigger_event("disconnect") -> on_disconnect
on_disconnect ==
    /\ sio = "client"
    /\ life.up
    /\ connected' = Disconnected(connected, subscription_id).connected
    /\ subscription_id' = Disconnected(connected, subscription_id).subscription_id
    /\ life' = [life EXCEPT !.up = FALSE, !.disconnects = @ + 1,
                            !.disconnect_hook = @ + DisconnectHook(life.hooks),
                            !.renew = TRUE]
    /\ UNCHANGED <<item_callbacks, before, sio, inflight, trace, task, op>>
    /\ UNCHANGED pure

\* No function was called.
NoPure == [fn |-> "none", arg |-> <<>>, out |-> <<>>]

\* ------------------------------------------------- check_response_for_error
\* A value of a response document: absent, null, a string or an integer (the
\* integer written with its digits).
Absent == [t |-> "absent", v |-> ""]
Null == [t |-> "null", v |-> ""]
Text(v) == [t |-> "str", v |-> v]
Number(v) == [t |-> "int", v |-> v]

DetailsValues ==
    {Absent, Null, Text(""), Text("Permission denied Bad credentials"),
     Text("Expired or invalid token"), Text("Account not found in DB")}
CodeValues == {Absent, Null, Number("401"), Text("401"), Number("404"), Number("999")}
ErrorValues ==
    {Absent, Null, Text("Unauthorized"), Text("Invalid category"), Text("Something else")}

\* A response text.  A JSON text is an object with any of the keys
\* "C4ErrorResponse" (an object with "details" and "code"), "code", "error" and
\* "details"; an XML text has one root element, and its values are text.
NoInner == [present |-> FALSE, details |-> Absent, code |-> Absent]
Inners ==
    {NoInner} \cup
    {[present |-> TRUE, details |-> d, code |-> c] :
        d \in DetailsValues, c \in {Absent, Null, Number("401"), Number("404"), Number("999")}}
JsonTexts ==
    {[format |-> "JSON", c4 |-> i, code |-> c, error |-> e, details |-> d] :
        i \in Inners, c \in CodeValues, e \in ErrorValues, d \in DetailsValues}
XmlValues(vs) == {v \in vs : v.t \in {"absent", "str"}}
XmlTexts ==
    {r \in {[format |-> "XML", c4 |-> i, code |-> c, error |-> e, details |-> Absent] :
              i \in {j \in Inners : j.details.t \in {"absent", "str"}
                                    /\ j.code.t \in {"absent", "int"}},
              c \in XmlValues(CodeValues), e \in XmlValues(ErrorValues)} :
        Cardinality({k \in {"c4", "code", "error"} :
                       \/ k = "c4" /\ r.c4.present
                       \/ k = "code" /\ r.code # Absent
                       \/ k = "error" /\ r.error # Absent}) <= 1}
Responses == JsonTexts \cup XmlTexts

\* _check_response_format: does the text start with "<"
CheckResponseFormat(response_text) == response_text.format

\* json.loads keeps a value as it is written; xmltodict.parse gives every value
\* as a string and an empty element as None.
ParseValue(format, v) ==
    IF format = "JSON" \/ v = Absent THEN v
    ELSE IF v.v = "" THEN Null
    ELSE Text(v.v)
Parse(response_text) ==
    LET f == CheckResponseFormat(response_text)
    IN  [c4 |-> [present |-> response_text.c4.present,
                 details |-> ParseValue(f, response_text.c4.details),
                 code |-> ParseValue(f, response_text.c4.code)],
         code |-> ParseValue(f, response_text.code),
         error |-> ParseValue(f, response_text.error),
         details |-> ParseValue(f, response_text.details)]

\* dict.get(key): None for a key that is absent.
Get(v) == IF v = Absent THEN Null ELSE v

\* _extract_error_info
NoErrorInfo == [type |-> "None", details |-> Null, code |-> Null, error |-> Null]
ExtractErrorInfo(dictionary) ==
    IF dictionary.c4.present
    THEN [type |-> "C4ErrorResponse", details |-> Get(dictionary.c4.details),
          code |-> Get(dictionary.c4.code), error |-> Null]
    ELSE IF dictionary.code # Absent
    THEN [type |-> "code", details |-> Get(dictionary.details),
          code |-> Get(dictionary.code), error |-> Null]
    ELSE IF dictionary.error # Absent
    THEN [type |-> "error", details |-> Get(dictionary.details),
          code |-> Null, error |-> Get(dictionary.error)]
    ELSE NoErrorInfo

\* ERROR_CODES, ERROR_DETAILS, DIRECTOR_ERRORS, DIRECTOR_ERROR_DETAILS; the keys
\* are strings, and str(code) of an integer is its digits.
ERROR_CODES(key) ==
    CASE key = "401" -> "Unauthorized"
      [] key = "404" -> "NotFound"
      [] OTHER -> "C4Exception"
ERROR_DETAILS == {"Permission denied Bad credentials"}
DIRECTOR_ERRORS(key) ==
    CASE key = "Unauthorized" -> "Unauthorized"
      [] key = "Invalid category" -> "InvalidCategory"
      [] OTHER -> "C4Exception"
DIRECTOR_ERROR_DETAILS == {"Expired or invalid token"}

\* `if details:` for None or a string.
Truthy(v) == v.t = "str" /\ v.v # ""

\* _raise_error that looks at the code before the details.
RaiseErrorCodeFirst(error_info, response_text) ==
    IF error_info.code # Null
    THEN [raised |-> ERROR_CODES(error_info.code.v), message |-> response_text]
    ELSE IF Truthy(error_info.details) /\ error_info.details.v \in ERROR_DETAILS
    THEN [raised |-> "BadCredentials", message |-> response_text]
    ELSE IF Truthy(error_info.details) /\ error_info.details.v \in DIRECTOR_ERROR_DETAILS
    THEN [raised |-> "BadToken", message |-> response_text]
    ELSE IF error_info.error # Null
    THEN [raised |-> DIRECTOR_ERRORS(error_info.error.v), message |-> response_text]
    ELSE [raised |-> "C4Exception", message |-> response_text]

\* _raise_error: the exception raised and the message it carries.
RaiseError(error_info, response_text) ==
    IF Truthy(error_info.details) /\ error_info.details.v \in ERROR_DETAILS
    THEN [raised |-> "BadCredentials", message |-> response_text]
    ELSE IF Truthy(error_info.details) /\ error_info.details.v \in DIRECTOR_ERROR_DETAILS
    THEN [raised |-> "BadToken", message |-> response_text]
    ELSE IF error_info.code # Null
    THEN [raised |-> ERROR_CODES(error_info.code.v), message |-> response_text]
    ELSE IF error_info.error # Null
    THEN [raised |-> DIRECTOR_ERRORS(error_info.error.v), message |-> response_text]
    ELSE [raised |-> "C4Exception", message |-> response_text]

\* check_response_for_error that raises for every response with "details".
CheckResponseForErrorEager(response_text) ==
    LET error_info == ExtractErrorInfo(Parse(response_text))
    IN  IF error_info # NoErrorInfo \/ response_text.details # Absent
        THEN RaiseError(error_info, response_text)
        ELSE [raised |-> "none", message |-> response_text]

\* check_response_for_error: what it raises, "none" when it returns.
CheckResponseForError(response_text) ==
    LET error_info == ExtractErrorInfo(Parse(response_text))
    IN  IF error_info # NoErrorInfo
        THEN RaiseError(error_info, response_text)
        ELSE [raised |-> "none", message |-> response_text]

check_response_for_error ==
    /\ pure.fn = "check_response_for_error"
    /\ pure.out = <<>>
    /\ pure' = [pure EXCEPT !.out = <<CheckResponseForError(pure.arg)>>]
    /\ UNCHANGED <<item_callbacks, before, sio, connected, subscription_id, inflight,
                   trace, task, op, life>>

\* ------------------------------------------------- reading an item variable
\* The values a variable can have in the Director's answer.
Bool(v) == [t |-> "bool", v |-> v]
Values ==
    {Text("Undefined"), Text("72"), Text(""), Number("0"), Number("45"),
     Bool("false"), Bool("true"), Null}

\* The Director's answer to GET .../variables?varnames=...: a JSON list of at
\* most MaxItems objects, given by their "value".
RECURSIVE Lists(_)
Lists(n) ==
    IF n = 0 THEN {<<>>}
    ELSE Lists(n - 1) \cup {Append(l, v) : l \in {x \in Lists(n - 1) : Len(x) = n - 1},
                                          v \in Values}
Answers == Lists(MaxItems)

\* The outcome of a getter: what it raised ("none" when it returned) and the
\* value returned.
Returned(v) == [raised |-> "none", value |-> v]
RaisedBy(e) == [raised |-> e, value |-> Null]

\* C4Director.getItemVariableValue: data == "[]" raises, else
\* json.loads(data)[0]["value"].
GetItemVariableValue(data) ==
    IF data = <<>> THEN RaisedBy("ValueError")
    ELSE Returned(data[1])

\* int(value)
IntOf(v) ==
    CASE v.t = "int" -> Returned(v)
      [] v.t = "bool" -> Returned(Number(IF v.v = "true" THEN "1" ELSE "0"))
      [] v.t = "str" -> IF v.v \in {"0", "45", "72"} THEN Returned(Number(v.v))
                        ELSE RaisedBy("ValueError")
      [] OTHER -> RaisedBy("TypeError")

\* bool(value)
BoolOf(v) ==
    CASE v.t = "int" -> Returned(Bool(IF v.v = "0" THEN "false" ELSE "true"))
      [] v.t = "bool" -> Returned(v)
      [] v.t = "str" -> Returned(Bool(IF v.v = "" THEN "false" ELSE "true"))
      [] OTHER -> Returned(Bool("false"))

\* C4Light.getLevel
GetLevel(data) ==
    LET value == GetItemVariableValue(data)
    IN  IF value.raised # "none" THEN value ELSE IntOf(value.value)

\* C4Blind.get_fully_open; the getter of the director it calls is
\* getItemVariableValue.
GetFullyOpen(data) ==
    LET value == GetItemVariableValue(data)
    IN  IF value.raised # "none" THEN value
        ELSE IF value.value = Null THEN Returned(Null)
        ELSE BoolOf(value.value)

getItemVariableValue ==
    /\ pure.fn = "getItemVariableValue"
    /\ pure.out = <<>>
    /\ pure' = [pure EXCEPT !.out = <<GetItemVariableValue(pure.arg)>>]
    /\ UNCHANGED <<item_callbacks, before, sio, connected, subscription_id, inflight,
                   trace, task, op, life>>

getLevel ==
    /\ pure.fn = "getLevel"
    /\ pure.out = <<>>
    /\ pure' = [pure EXCEPT !.out = <<GetLevel(pure.arg)>>]
    /\ UNCHANGED <<item_callbacks, before, sio, connected, subscription_id, inflight,
                   trace, task, op, life>>

get_fully_open ==
    /\ pure.fn = "get_fully_open"
    /\ pure.out = <<>>
    /\ pure' = [pure EXCEPT !.out = <<GetFullyOpen(pure.arg)>>]
    /\ UNCHANGED <<item_callbacks, before, sio, connected, subscription_id, inflight,
                   trace, task, op, life>>

Init ==
    /\ item_callbacks = [d \in {} |-> <<>>]
    /\ before = [d \in ItemIds |-> {}]
    /\ sio = "None"
    /\ connected = FALSE
    /\ subscription_id = NoSub
    /\ inflight = 0
    /\ trace = <<>>
    /\ task = IdleTask
    /\ op = NoOp
    /\ life = NewLife(TRUE)
    /\ pure = NoPure

\* The same, with or without the two hooks.
InitConn ==
    /\ item_callbacks = [d \in {} |-> <<>>]
    /\ before = [d \in ItemIds |-> {}]
    /\ sio = "None"
    /\ connected = FALSE
    /\ subscription_id = NoSub
    /\ inflight = 0
    /\ trace = <<>>
    /\ task = IdleTask
    /\ op = NoOp
    /\ \E hooks \in BOOLEAN : life = NewLife(hooks)
    /\ pure = NoPure

\* The same, with or without a session supplied by the caller.
InitSession ==
    /\ item_callbacks = [d \in {} |-> <<>>]
    /\ before = [d \in ItemIds |-> {}]
    /\ sio = "None"
    /\ connected = FALSE
    /\ subscription_id = NoSub
    /\ inflight = 0
    /\ trace = <<>>
    /\ task = IdleTask
    /\ op = NoOp
    /\ \E session \in {"None", "supplied"} :
          life = [NewLife(TRUE) EXCEPT !.session = session]
    /\ pure = NoPure

\* One call of a function without state, on any of its arguments.
InitPure ==
    /\ item_callbacks = [d \in {} |-> <<>>]
    /\ before = [d \in ItemIds |-> {}]
    /\ sio = "None"
    /\ connected = FALSE
    /\ subscription_id = NoSub
    /\ inflight = 0
    /\ trace = <<>>
    /\ task = IdleTask
    /\ op = NoOp
    /\ life = NewLife(TRUE)
    /\ \/ \E r \in Responses :
             pure = [fn |-> "check_response_for_error", arg |-> r, out |-> <<>>]
       \/ \E fn \in {"getItemVariableValue", "getLevel", "get_fully_open"},
             data \in Answers :
             pure = [fn |-> fn, arg |-> data, out |-> <<>>]

\* The registry and the dispatch of frames on a connection that subscribes once.
Next ==
    \/ \E d \in ItemIds, cb \in Callbacks :
          add_item_callback(d, cb) /\ UNCHANGED op
    \/ \E d \in ItemIds, cb \in Callbacks \cup {NoCallback} :
          remove_item_callback(d, cb) /\ UNCHANGED op
    \/ sio = "None" /\ sio_connect
    \/ on_connect
    \/ trace = <<>> /\ on_clientId
    \/ get_returns_id("s1")
    \/ \E ev \in SubIds, p \in Payloads : frame_event(ev, p)
    \/ process_message
    \/ frame_done
    \/ frame_return
    \/ callback_begin
    \/ \E res \in {"ok", "raised"} : callback_end(res)

Spec == Init /\ [][Next]_vars

\* The registry alone, with three callables.
NextRegistry ==
    \/ \E d \in ItemIds, cb \in CallbacksWide :
          add_item_callback(d, cb) /\ Recorded("add", d, cb)
    \/ \E d \in ItemIds, cb \in CallbacksWide \cup {NoCallback} :
          remove_item_callback(d, cb) /\ Recorded("remove", d, cb)

SpecRegistry == Init /\ [][NextRegistry]_vars

\* The connection: handshakes, disconnects and reconnects, frames of one data
\* record about item 1.
NextConn ==
    \/ sio_connect
    \/ sio_connect_refused
    \/ sio_disconnect
    \/ on_connect
    \/ on_clientId
    \/ \E s \in SubIds : get_returns_id(s)
    \/ \E failure \in Failures : get_fails(failure)
    \/ on_disconnect
    \/ add_item_callback(1, "a") /\ UNCHANGED op
    \/ remove_item_callback(1, NoCallback) /\ UNCHANGED op
    \/ \E ev \in SubIds : frame_event(ev, Single(Dict(1, FALSE)))
    \/ process_message
    \/ frame_done
    \/ frame_return
    \/ callback_begin
    \/ \E res \in {"ok", "raised"} : callback_end(res)

SpecConn == InitConn /\ [][NextConn]_vars

\* The handshakes alone, with the ids a response can carry, the empty one
\* included.
NextSession ==
    \/ sio_connect
    \/ on_connect
    \/ on_clientId
    \/ \E s \in SubIds \cup {""} : get_returns_id(s)
    \/ \E failure \in Failures : get_fails(failure)
    \/ on_disconnect

SpecSession == InitSession /\ [][NextSession]_vars

\* The functions without state.
NextPure ==
    \/ check_response_for_error
    \/ getItemVariableValue
    \/ getLevel
    \/ get_fully_open

SpecPure == InitPure /\ [][NextPure]_vars

\* One connection whose callbacks may call sio_disconnect: frames of one or two
\* records about item 1.
NextWithin ==
    \/ sio = "None" /\ sio_connect
    \/ on_connect
    \/ trace = <<>> /\ on_clientId
    \/ get_returns_id("s1")
    \/ \E cb \in Callbacks : add_item_callback(1, cb) /\ UNCHANGED op
    \/ \E n \in 1..MaxBatch : frame_event("s1", Batch([i \in 1..n |-> Dict(1, FALSE)]))
    \/ process_message
    \/ frame_done
    \/ frame_return
    \/ callback_begin
    \/ \E res \in {"ok", "raised"} : within_callback_end(res)
    \/ callback_sio_disconnect
    \/ within_disconnected
    \/ on_disconnect

\* The event loop runs every task that can run: the loop of _process_message
\* goes on, a callback that is not suspended ends, and a call of the client that
\* can return does.
FairWithin ==
    /\ WF_vars(process_message)
    /\ WF_vars(frame_done)
    /\ WF_vars(frame_return)
    /\ WF_vars(callback_begin)
    /\ WF_vars(\E res \in {"ok", "raised"} : within_callback_end(res))
    /\ WF_vars(within_disconnected)

SpecWithin == Init /\ [][NextWithin]_vars /\ FairWithin

\* sio_connect calls that overlap.
NextCalls ==
    \/ \E c \in Callers : sio_connect_call(c)
    \/ \E c \in Callers : client_disconnected(c)
    \/ \E c \in Callers : client_connected(c)

SpecCalls == Init /\ [][NextCalls]_vars

\* The registry calls, recorded, and frames of one data record.
NextAdd ==
    \/ \E d \in ItemIds, cb \in Callbacks :
          add_item_callback(d, cb) /\ Recorded("add", d, cb)
    \/ \E d \in ItemIds, cb \in Callbacks \cup {NoCallback} :
          remove_item_callback(d, cb) /\ Recorded("remove", d, cb)
    \/ sio = "None" /\ sio_connect
    \/ on_connect
    \/ trace = <<>> /\ on_clientId
    \/ get_returns_id("s1")
    \/ \E d \in ItemIds : frame_event("s1", Single(Dict(d, FALSE)))
    \/ process_message
    \/ frame_done
    \/ frame_return
    \/ callback_begin
    \/ \E res \in {"ok", "raised"} : callback_end(res)

SpecAdd == Init /\ [][NextAdd]_vars

\* ================================================================ claims
\* The callbacks the history holds as registered, and a list without one callback.
Registered(pairs) == {x[1] : x \in {y \in pairs : y[1] = y[2]}}
Without(list, cb) == LET Keep(x) == x # cb IN SelectSeq(list, Keep)
Occurrences(list, cb) == Cardinality({i \in 1..Len(list) : list[i] = cb})

\* C1: after any sequence of add_item_callback and remove_item_callback calls,
\* every item id that is a key of the registry maps to a non-empty list, and an
\* item id is a key exactly when a callback is registered for it.
C1_NoEmptyEntry ==
    /\ \A d \in DOMAIN item_callbacks : item_callbacks[d] # <<>>
    /\ \A d \in ItemIds : d \in DOMAIN item_callbacks <=> Registered(before[d]) # {}

\* C1 witness: the last callback of an item was removed by name, and its key is gone.
C1_Witness ==
    /\ op.name = "remove" /\ op.cb # NoCallback
    /\ op.d \in DOMAIN op.pre /\ op.pre[op.d] = <<op.cb>>
    /\ op.d \notin DOMAIN item_callbacks
    /\ DOMAIN item_callbacks # {}

\* The callbacks called for the record in hand, in order.
CallCbs == [i \in 1..Len(task.calls) |-> task.calls[i].cb]
\* _process_message has returned for record idx - 1 and nothing was done since.
RecordComplete == task.pc \in {"next", "done"} /\ task.idx > 1
\* Every callback registered when the record's dispatch began was called once.
AllCalled ==
    /\ Len(task.calls) = Cardinality(Registered(task.regAt))
    /\ \A cb \in Registered(task.regAt) : Occurrences(CallCbs, cb) = 1
\* The frame in hand was named by the subscription id.
OnChannel == task.pc # "idle" /\ task.route # "ignored"

\* C2: add_item_callback(d, cb) for a callback already registered for d leaves the
\* registry exactly as it was, and a record for d calls each registered callback
\* exactly once, never twice.
C2_AddIdempotent ==
    /\ (op.name = "add" /\ op.d \in DOMAIN op.pre /\ InList(op.pre[op.d], op.cb))
          => item_callbacks = op.pre
    /\ \A cb \in Callbacks : Occurrences(CallCbs, cb) <= 1
    /\ RecordComplete => AllCalled

\* C2 witness: the last registry call repeated a registration, and a record for
\* that item was then dispatched to the callback once.
C2_Witness ==
    /\ op.name = "add" /\ op.d \in DOMAIN op.pre /\ InList(op.pre[op.d], op.cb)
    /\ item_callbacks = op.pre
    /\ task.pc = "done" /\ task.payload = Single(Dict(op.d, FALSE))
    /\ task.regAt = before[op.d]
    /\ Occurrences(CallCbs, op.cb) = 1

\* C3: remove_item_callback(d, cb) takes only cb out of d's list and keeps the
\* rest in order; without cb it takes d's whole entry; every other item's entry
\* stays; a call for an item or a callback that is not registered changes nothing.
C3_RemoveFrame ==
    op.name = "remove" =>
      /\ \A x \in ItemIds \ {op.d} :
            /\ x \in DOMAIN item_callbacks <=> x \in DOMAIN op.pre
            /\ DictGet(item_callbacks, x) = DictGet(op.pre, x)
      /\ op.cb = NoCallback => op.d \notin DOMAIN item_callbacks
      /\ op.cb # NoCallback =>
            DictGet(item_callbacks, op.d) = Without(DictGet(op.pre, op.d), op.cb)
      /\ (op.d \notin DOMAIN op.pre \/ (op.cb # NoCallback /\ ~InList(op.pre[op.d], op.cb)))
            => item_callbacks = op.pre

\* C3 witness: the middle one of three callbacks was removed while the other
\* item has an entry.
C3_Witness ==
    /\ op.name = "remove" /\ op.cb # NoCallback
    /\ op.d \in DOMAIN op.pre /\ Len(op.pre[op.d]) = 3 /\ op.pre[op.d][2] = op.cb
    /\ Len(DictGet(item_callbacks, op.d)) = 2
    /\ \E x \in ItemIds \ {op.d} : x \in DOMAIN item_callbacks

\* C4: an exception of a callback is caught where it is called: the frame's
\* handling never raises because of it, the other callbacks of the record are
\* still called, and so are the callbacks of every later record of the batch.
C4_Isolation ==
    task.caught =>
      /\ task.pc # "raised"
      /\ RecordComplete => AllCalled
      /\ task.pc = "done" => task.idx = Len(task.payload.body) + 1

\* C4 witness: a callback of the first record (item 1) raised, and the callback of
\* the second record (item 2) was called and returned.
C4_Witness ==
    /\ task.caught /\ task.pc = "done"
    /\ Len(task.payload.body) = 2
    /\ DeviceId(task.payload.body[1]) = 1 /\ DeviceId(task.payload.body[2]) = 2
    /\ Len(task.calls) = 1 /\ task.calls[1].rec = 2 /\ task.calls[1].res = "ok"

\* C5: the records of a batch are dispatched in array order: a callback is called
\* for the record in hand only, the next record is taken up only when every call
\* of the record in hand has ended, and it is the record at the next index.
C5_BatchOrder ==
    [][/\ Len(task'.calls) = Len(task.calls) + 1 =>
             /\ task'.calls[Len(task'.calls)].rec = task.idx
             /\ \A i \in 1..Len(task.calls) :
                   task.calls[i].rec = task.idx /\ task.calls[i].res # "running"
       /\ (task.pc # "idle" /\ task'.pc # "idle" /\ task'.idx # task.idx) =>
             /\ task'.idx = task.idx + 1
             /\ \A i \in 1..Len(task'.calls) : task'.calls[i].res # "running"
       /\ (task.calls # <<>> /\ task'.calls = <<>>) =>
             \A i \in 1..Len(task.calls) : task.calls[i].res # "running"]_vars

\* C5 witness: a callback of the second record runs after a callback of the first
\* record has ended (by raising).
C5_Witness ==
    /\ task.pc = "run" /\ task.idx = 2 /\ task.caught
    /\ Len(task.calls) = 1 /\ task.calls[1].rec = 2 /\ task.calls[1].res = "running"

\* C6: the callbacks of one record are called in the order their registrations
\* took effect, and one is called only when the one before it has ended.
C6_RegistrationOrder ==
    \A i, j \in 1..Len(task.calls) :
        i < j => /\ task.calls[i].cb # task.calls[j].cb
                 /\ <<task.calls[i].cb, task.calls[j].cb>> \in task.regAt
                 /\ task.calls[i].res # "running"

\* C6 witness: two callbacks of one record were called, "b" first.
C6_Witness ==
    /\ Len(task.calls) = 2 /\ task.calls[1].cb = "b" /\ task.calls[2].cb = "a"
    /\ task.calls[2].res = "running"

\* C7 (the claim as stated): a record without a device id (a dict without
\* "iddevice", or a value that is no dict) is passed over: handling its frame
\* raises nothing, no callback is called for it, and the frame's other records
\* are all gone through.
C7_NoIdDropped ==
    (OnChannel /\ \E i \in 1..Len(task.payload.body) :
                     DeviceId(task.payload.body[i]) = NoDevice) =>
      /\ task.pc # "raised"
      /\ \A j \in 1..Len(task.calls) :
            DeviceId(task.payload.body[task.calls[j].rec]) # NoDevice
      /\ task.pc = "done" =>
            (task.route = "ack" \/ task.idx = Len(task.payload.body) + 1)

\* C8: a data record for item d on the subscription channel is given to every
\* callback registered for d when its dispatch begins, once each, as (d, record),
\* and to no other callback; with no callback registered nothing is called; and
\* no frame that reaches the dispatcher raises.
C8_Delivery ==
    /\ (OnChannel /\ \E d \in ItemIds : task.payload = Single(Dict(d, FALSE)))
          => task.route = "callback"
    /\ task.route = "callback" => task.pc # "raised"
    /\ \A i \in 1..Len(task.calls) :
          LET c == task.calls[i]
          IN  /\ c.rec \in 1..Len(task.payload.body)
              /\ c.msg = task.payload.body[c.rec]
              /\ c.msg.kind = "dict" /\ c.dev = c.msg.iddevice /\ c.dev \in ItemIds
              /\ c.cb \in Registered(task.regAt)
    /\ RecordComplete =>
          /\ AllCalled
          /\ LET m == task.payload.body[task.idx - 1]
              IN  (m.kind # "dict" \/ m.iddevice = NoDevice) => task.calls = <<>>

\* C8 witness: a frame that is one data record of item 1 was dispatched to the
\* one callback of item 1 while item 2 has callbacks too.
C8_Witness ==
    /\ task.pc = "done" /\ task.payload = Single(Dict(1, FALSE))
    /\ Len(task.calls) = 1 /\ task.calls[1].dev = 1 /\ task.calls[1].res = "ok"
    /\ task.regAt = before[1]
    /\ 2 \in DOMAIN item_callbacks /\ Len(item_callbacks[2]) = 2

\* C9: a frame on the subscription channel that is a record with a "status" key
\* is answered with exactly one acknowledgment and reaches no callback, also when
\* the record has the id of an item with callbacks.
C9_StatusAck ==
    (OnChannel /\ \E d \in ItemIds \cup {NoDevice} : task.payload = Single(Dict(d, TRUE)))
      => /\ task.pc = "done"
         /\ task.emitted = <<STATUS_ACK_MESSAGE>>
         /\ task.calls = <<>> /\ task.idx = 0

\* C9 witness: a status record with item id 1 was acknowledged while item 1 has a
\* callback.
C9_Witness ==
    /\ task.pc = "done" /\ task.payload = Single(Dict(1, TRUE))
    /\ task.emitted = <<STATUS_ACK_MESSAGE>>
    /\ 1 \in DOMAIN item_callbacks

\* C10: when the handshake GET returns subscription id s, the namespace is
\* connected and holds s, and one startSubscription carrying the stored id is
\* sent, right after the response; every GET is issued right after the probe.
C10_Handshake ==
    [][/\ \A i \in 1..Len(trace') :
             /\ (trace'[i][1] = "get" /\ trace'[i][2] \in SubIds) =>
                   (i < Len(trace') /\ trace'[i + 1] = <<"startSubscription", trace'[i][2]>>)
             /\ trace'[i][1] = "startSubscription" =>
                   (i > 1 /\ trace'[i - 1] = <<"get", trace'[i][2]>> /\ trace'[i][2] \in SubIds)
             /\ trace'[i] = <<"get", "request">> =>
                   (i > 1 /\ trace'[i - 1] = <<"emit", PROBE_MESSAGE>>)
       /\ (Len(trace') > Len(trace) /\ trace'[Len(trace')][1] = "startSubscription") =>
             /\ connected'
             /\ subscription_id' = trace'[Len(trace')][2]]_vars

\* C10 witness: a handshake went through with subscription id "s2".
C10_Witness ==
    /\ connected /\ subscription_id = "s2"
    /\ Len(trace) = 4
    /\ trace[4] = <<"startSubscription", "s2">>

\* A step in which the GET of a handshake comes back without a subscription id.
HandshakeFails ==
    /\ inflight' = inflight - 1
    /\ Len(trace') >= Len(trace)
    /\ ~(Len(trace') > Len(trace) /\ trace'[Len(trace) + 1][1] = "get")

StartSubscriptions ==
    {i \in 1..Len(trace) : trace[i][1] = "startSubscription"}

\* C11: when the GET of the handshake fails (an error response, a body without
\* "subscriptionId", a timeout, a network error), on_clientId raises, the
\* namespace fields are left as they were, so a Disconnected namespace stays
\* Disconnected, and no startSubscription is emitted.
C11_FailureKeepsState ==
    [][HandshakeFails =>
          /\ life'.handshake_raised \in {Raised(f) : f \in Failures}
          /\ connected' = connected
          /\ subscription_id' = subscription_id
          /\ trace' = trace
          /\ (~connected /\ subscription_id = NoSub
                => ~connected' /\ subscription_id' = NoSub)]_vars

C11_Witness ==
    /\ life.handshake_raised = "ValueError"
    /\ inflight = 0
    /\ ~connected
    /\ subscription_id = NoSub
    /\ StartSubscriptions = {}
    /\ Announced = 1

\* C12: a failure of the handshake reaches the caller of sio_connect: when the
\* handshake has raised and no subscription is active, the sio_connect call that
\* made the connection has raised and has not returned.
C12_FailureReachesCaller ==
    (life.handshake_raised # "none" /\ ~connected /\ StartSubscriptions = {})
        => life.connect_result = "raised"

\* A step in which on_clientId handles a client-id announcement.
Announces ==
    /\ Len(trace') > Len(trace)
    /\ trace'[Len(trace) + 1] = <<"emit", PROBE_MESSAGE>>

\* C13: a client-id announcement handled while the namespace is Subscribed
\* (connected, with a subscription id) only emits the probe: no GET is issued,
\* no startSubscription is emitted and the stored subscription id is unchanged.
C13_AnnouncementIgnored ==
    [][(Announces /\ connected /\ subscription_id \in SubIds) =>
          /\ trace' = Append(trace, <<"emit", PROBE_MESSAGE>>)
          /\ inflight' = inflight
          /\ subscription_id' = subscription_id
          /\ connected' = connected]_vars

C13_Witness ==
    /\ connected
    /\ subscription_id \in SubIds
    /\ Announced = 2
    /\ trace[Len(trace)] = <<"emit", PROBE_MESSAGE>>
    /\ Cardinality(StartSubscriptions) = 1
    /\ inflight = 0

LiveClients == {k \in 1..Len(life.clients) : life.clients[k] = "live"}

\* C14: whatever the interleaving of sio_connect calls, at most one transport is
\* live, it is the one _sio refers to, and every client made before it has been
\* closed.
C14_OneTransport ==
    /\ Cardinality(LiveClients) <= 1
    /\ \A k \in LiveClients :
          /\ k = life.slot
          /\ \A j \in 1..(k - 1) : life.clients[j] = "closed"

\* A step that is a call of sio_disconnect.
DisconnectCalled == life'.disconnect_calls = life.disconnect_calls + 1

\* C15: sio_disconnect on a client that is already disconnected (never connected,
\* refused, or disconnected by an earlier sio_disconnect) returns without raising
\* and changes nothing, the count of its own calls aside; it does not call the
\* disconnect hook.  The hook is called at most once for each "disconnect" event
\* that takes the namespace from up to down.
C15_DisconnectIdle ==
    [][/\ (DisconnectCalled /\ ~life.open) =>
             /\ life'.disconnect_result = "returned"
             /\ life' = [life EXCEPT !.disconnect_calls = @ + 1,
                                     !.disconnect_result = "returned"]
             /\ UNCHANGED <<item_callbacks, before, sio, connected, subscription_id,
                            inflight, trace, task, op>>
       /\ life'.disconnect_hook > life.disconnect_hook =>
             /\ life'.disconnect_hook = life.disconnect_hook + 1
             /\ life.up /\ ~life'.up]_vars

C15_Witness ==
    /\ sio = "client"
    /\ ~life.open
    /\ life.disconnect_calls = 2
    /\ life.disconnect_result = "returned"
    /\ life.connect_result = "returned"
    /\ life.disconnect_hook = 1

\* C16: once a "disconnect" event has been handled, the namespace is
\* Disconnected (connected false, no subscription id) and stays so until the
\* transport is connected anew.
C16_StaysDisconnected ==
    (life.disconnects > 0 /\ ~life.up) => (~connected /\ subscription_id = NoSub)

\* A step of the connection's life: a call of sio_connect or sio_disconnect, an
\* event of the transport, a step of a handshake.
LifecycleStep ==
    \/ life' # life
    \/ sio' # sio
    \/ connected' # connected
    \/ subscription_id' # subscription_id
    \/ inflight' # inflight
    \/ trace' # trace

\* C17: no step of the connection's life (sio_connect, sio_disconnect, the
\* connect and disconnect events, a handshake, first or repeated) changes the
\* callback registry, and a record dispatched on any connection is given to the
\* callbacks registered for its item.
C17_RegistryKept ==
    [][/\ LifecycleStep => (item_callbacks' = item_callbacks /\ before' = before)
       /\ RecordComplete => AllCalled]_vars

\* C17 witness: after a reconnect and a second handshake a record of item 1 was
\* given to the callback that was registered when the transport reconnected.
C17_Witness ==
    /\ life.connects = 2
    /\ Cardinality(StartSubscriptions) = 2
    /\ life.at_connect = item_callbacks
    /\ 1 \in DOMAIN item_callbacks
    /\ task.pc = "done"
    /\ Len(task.calls) = 1
    /\ task.calls[1].cb = "a"
    /\ task.calls[1].res = "ok"

\* C18: a subscription id does not outlive its connection: the first client-id
\* announcement after a "disconnect" event issues a new GET, and until that
\* announcement no frame is dispatched, whatever event names it.
C18_NoReuse ==
    [][/\ (Announces /\ life.renew) => inflight' = inflight + 1
       /\ (life.renew /\ NoFrame /\ ~NoFrame') => task'.route = "ignored"]_vars

\* A step in which a handshake succeeds: the namespace enters Subscribed.
EntersSubscribed ==
    /\ Len(trace') = Len(trace) + 2
    /\ trace'[Len(trace')][1] = "startSubscription"

\* C19 as stated: the connect hook is called once at each successful entry into
\* Subscribed, and only with the namespace Subscribed.
C19_HookOnSubscribed ==
    [][/\ life'.connect_hook > life.connect_hook => connected'
       /\ (EntersSubscribed /\ life.hooks) =>
             life'.connect_hook = life.connect_hook + 1]_vars

\* C19: the connect hook, when supplied, is called exactly once by each
\* "connect" event of the namespace (the connection opened, or reopened after a
\* network error), before any handshake and whether or not one succeeds, and at
\* no other time.
C19_HookPerConnect ==
    [][/\ life'.connect_hook > life.connect_hook =>
             /\ life'.connect_hook = life.connect_hook + 1
             /\ life'.connects = life.connects + 1
             /\ ~life.up /\ life'.up
       /\ (life'.connects > life.connects /\ life.hooks) =>
             life'.connect_hook = life.connect_hook + 1
       /\ life.connect_hook = (IF life.hooks THEN life.connects ELSE 0)
       /\ EntersSubscribed => life'.connect_hook = life.connect_hook]_vars

\* C19 witness: the hook was called at both connects of a namespace whose
\* handshake failed and that never subscribed.
C19_Witness ==
    /\ life.hooks
    /\ life.connects = 2
    /\ life.connect_hook = 2
    /\ life.handshake_raised # "none"
    /\ StartSubscriptions = {}
    /\ ~connected

\* C20: trigger_event never raises for a frame on the subscription channel,
\* whatever the payload (an object, a list of objects, a list with non-objects, a
\* scalar or null, with or without a device id) and whatever the callbacks do.
C20_NoEscape == OnChannel => task.pc # "raised"

FormatOf(r) ==
    IF r.c4.present THEN "C4ErrorResponse"
    ELSE IF r.code # Absent THEN "code"
    ELSE IF r.error # Absent THEN "error"
    ELSE "none"
DetailsOf(r) == IF r.c4.present THEN r.c4.details ELSE r.details
CodeOf(r) == IF r.c4.present THEN r.c4.code ELSE r.code
Checked == pure.fn = "check_response_for_error" /\ pure.out # <<>>
KnownDetails(r) ==
    DetailsOf(r) \in {Text("Permission denied Bad credentials"),
                      Text("Expired or invalid token")}
KnownCode(r) == CodeOf(r).t \in {"int", "str"} /\ CodeOf(r).v \in {"401", "404"}
KnownError(r) == r.error \in {Text("Unauthorized"), Text("Invalid category")}

\* C22: check_response_for_error classifies by the details first: a recognized
\* details text raises BadCredentials or BadToken whatever the code or error,
\* and otherwise code 401 raises Unauthorized, code 404 NotFound, error
\* "Unauthorized" Unauthorized and "Invalid category" InvalidCategory, in the
\* C4ErrorResponse, flat-code and director-error formats alike.
C22_DetailsFirst ==
    (Checked /\ FormatOf(pure.arg) # "none") =>
        LET r == pure.arg
            raised == pure.out[1].raised
        IN  /\ DetailsOf(r) = Text("Permission denied Bad credentials")
                 => raised = "BadCredentials"
            /\ DetailsOf(r) = Text("Expired or invalid token") => raised = "BadToken"
            /\ (~KnownDetails(r) /\ FormatOf(r) \in {"C4ErrorResponse", "code"}) =>
                 /\ CodeOf(r).v = "401" => raised = "Unauthorized"
                 /\ CodeOf(r).v = "404" => raised = "NotFound"
            /\ (~KnownDetails(r) /\ FormatOf(r) = "error") =>
                 /\ r.error = Text("Unauthorized") => raised = "Unauthorized"
                 /\ r.error = Text("Invalid category") => raised = "InvalidCategory"

\* C22 witness: a flat-code response with code 404 and the details of bad
\* credentials raised BadCredentials.
C22_Witness ==
    /\ Checked
    /\ pure.arg.format = "JSON"
    /\ FormatOf(pure.arg) = "code"
    /\ pure.arg.code = Number("404")
    /\ pure.arg.details = Text("Permission denied Bad credentials")
    /\ pure.out[1].raised = "BadCredentials"

Got(fn) == pure.fn = fn /\ pure.out # <<>> /\ pure.arg # <<>>

\* C24: the value "Undefined" is read as None: the getter of the director
\* returns None for it and every other value unchanged, and the light level and
\* the blind's fully-open getter return None for it.
C24_UndefinedIsNone ==
    /\ Got("getItemVariableValue") =>
          pure.out[1] = IF pure.arg[1] = Text("Undefined") THEN Returned(Null)
                        ELSE Returned(pure.arg[1])
    /\ (Got("getLevel") /\ pure.arg[1] = Text("Undefined")) => pure.out[1] = Returned(Null)
    /\ (Got("get_fully_open") /\ pure.arg[1] = Text("Undefined"))
          => pure.out[1] = Returned(Null)

\* C25: the handshake never runs concurrently with itself on one connection: at
\* most one GET of a subscription id is in flight at any time, and at most one
\* startSubscription is sent on a connection.
C25_OneHandshake ==
    (life.connects <= 1 /\ life.disconnects = 0 /\ life.disconnect_calls = 0) =>
        /\ inflight <= 1
        /\ Cardinality(StartSubscriptions) <= 1

\* The connection is down: a "disconnect" event was handled and no connect event
\* followed, or sio_disconnect was called on it.
Down ==
    \/ life.disconnects > 0 /\ ~life.up
    \/ life.disconnect_calls > 0 /\ ~life.open

\* C26: a disconnect while the GET of the handshake is in flight cancels the
\* handshake: once the connection is down, no handshake of it marks the namespace
\* connected, stores a subscription id or emits startSubscription.
C26_DisconnectCancels ==
    [][Down => /\ ~EntersSubscribed
               /\ (connected' => connected)
               /\ (subscription_id' # NoSub => subscription_id' = subscription_id)]_vars

\* The registry of the device of the record in hand is not what it was when the
\* record's dispatch began.
ChangedSince ==
    /\ task.calls # <<>>
    /\ before[task.calls[1].dev] # task.regAt

\* C27: a change of the registry during the dispatch of a record neither raises
\* nor disturbs the loop: the callbacks called for the record are the ones
\* registered for its device when its dispatch began, each once, and a callback
\* added meanwhile is not called for it.
C27_SnapshotDispatch ==
    ChangedSince =>
        /\ task.pc # "raised"
        /\ \A i \in 1..Len(task.calls) :
              /\ task.calls[i].cb \in Registered(task.regAt)
              /\ Occurrences(CallCbs, task.calls[i].cb) = 1
        /\ RecordComplete => AllCalled

\* C27 witness: the second callback of a record is running although it was
\* removed from the registry after the record's dispatch began; the first one
\* has returned.
C27_Witness ==
    /\ ChangedSince
    /\ task.pc = "run"
    /\ Len(task.calls) = 2
    /\ task.calls[1].res = "ok"
    /\ task.calls[2].cb = "b"
    /\ ~InList(DictGet(item_callbacks, task.calls[2].dev), "b")
    /\ Registered(task.regAt) = {"a", "b"}

\* The frame in hand reached a device callback or was acknowledged.
Dispatched == task.pc # "idle" /\ (task.calls # <<>> \/ task.emitted # <<>>)

\* C29: device callbacks are called, and acknowledgments emitted, only for a
\* frame whose event name is the subscription id held when it comes: a frame of
\* another channel, a frame named by the id of an earlier connection and a frame
\* that comes while no id is held are dropped.
C29_OnlyOwnChannel ==
    /\ (OnChannel \/ Dispatched) => (task.held # NoSub /\ task.event = task.held)
    /\ (task.pc # "idle" /\ (task.held = NoSub \/ task.event # task.held))
          => (task.route = "ignored" /\ task.pc = "done"
              /\ task.calls = <<>> /\ task.emitted = <<>>)

\* C29 witness: after a disconnect and a new handshake that gave the id "s2", a
\* frame named by the earlier id "s1" for an item with a callback is dropped.
C29_Witness ==
    /\ life.disconnects > 0
    /\ connected /\ subscription_id = "s2"
    /\ \E i \in 1..Len(trace) : trace[i] = <<"startSubscription", "s1">>
    /\ task.event = "s1" /\ task.held = "s2"
    /\ task.route = "ignored" /\ task.pc = "done"
    /\ 1 \in DOMAIN item_callbacks

\* C30: between events the connected flag is true exactly when a subscription id
\* is held: the handshake sets both in one step and on_disconnect clears both in
\* one step.
C30_FlagIffId == connected <=> subscription_id # NoSub

\* C30 witness: a handshake made the namespace Subscribed, a "disconnect" event
\* cleared both fields, and a handshake still in flight is yet to return.
C30_Witness ==
    /\ life.disconnects > 0
    /\ ~connected /\ subscription_id = NoSub
    /\ StartSubscriptions # {}
    /\ inflight > 0

====
